---- MODULE Spec2Model ----
(***************************************************************************)
(* A model of the purr compiler front end: the renaming pass               *)
(* (src/src/rename.rs) and the parse-tree normalisation functions          *)
(* (src/src/parser.rs).                                                    *)
(*                                                                         *)
(* Spec      the renamer: rename_module walking an IndexedModule           *)
(* SpecNorm  the normalisation functions normalize_app and                 *)
(*           apply_record_updates applied to bounded inputs                *)
(***************************************************************************)
EXTENDS Integers, Sequences, FiniteSets, TLC

VARIABLES
    pc,             \* position of the renamer in its traversal
    imported_decls, \* rename_module's third argument
    module_scope,   \* Renamer.module_scope
    local_scopes,   \* Renamer.local_scopes
    v,              \* the declaration bound by `ref mut v` (rename.rs:84)
    orig,           \* the equation the loop is at, as it stands in the caller's module
    x,              \* the equation bound by `ref mut x` (rename.rs:95)
    i,              \* index of the next pattern of the pattern loop in progress
    depth,          \* lambdas of x.expr whose rename call is on the call stack
    failure,        \* message of the panic that ended the run, or None
    unpopped,       \* calls of push_scope so far minus calls of pop_scope so far
    entered,        \* stack depths found on entry by the open CaseBranch and lambdas
    nphase,         \* position of the normalisation driver
    nacc,           \* normalize_app: the expression built so far
    nargs,          \* arguments still to be consumed
    nin,            \* the inputs <<f, args>> the run started from
    result,         \* apply_record_updates: the vector `result`
    nout            \* the value returned

rvars == <<pc, imported_decls, module_scope, local_scopes, v, orig, x, i, depth, failure,
           unpopped, entered>>

nvars == <<nphase, nacc, nargs, nin, result, nout>>

vars == <<rvars, nvars>>

\* Option::None of a name or message
None == "None"

\* Option::None of a syntax node
Nil == [kind |-> "None"]

-----------------------------------------------------------------------------
(* Bounds of the model                                                     *)

\* patterns and expression nodes of one equation
MaxNodes == 4

\* entries of the import list
MaxImports == 2

\* arguments of one application
MaxArgs == 4

-----------------------------------------------------------------------------
(* Names                                                                   *)

Symbols == {"a", "x"}

ModuleIds == {"A", "B"}

\* the alias an import may be qualified with
Aliases == {"Q"}

QualifiedName(qualifier, name) == [module |-> qualifier, name |-> name]

AbsoluteName(module, name) == [module |-> module, name |-> name]

DeclId(module, name) == [module |-> module, name |-> name]

\* AbsoluteName::to_qualified_name: the name anchored to its defining module
to_qualified_name(abs) == QualifiedName(abs.module, abs.name)

-----------------------------------------------------------------------------
(* The syntax tree the renamer walks.  Located<T>::rename hands over to the *)
(* node it wraps and the renamer reads no span, so these nodes carry none. *)
(* The renamer reads each declaration and each equation of the module      *)
(* once, in the order of its loops: the model holds the one the loop is at *)
(* and draws it when the loop takes it.                                    *)

PatVar(s) == [kind |-> "Var", name |-> s]

PatWildcard == [kind |-> "Wildcard"]

Pats == {PatVar(s) : s \in Symbols} \cup {PatWildcard}

Var(q) == [kind |-> "Var", v |-> q]

Lam(pats, expr) == [kind |-> "Lam", pats |-> pats, expr |-> expr]

ExprLiteral == [kind |-> "Literal"]

VarNames == {QualifiedName(None, s) : s \in Symbols} \cup {QualifiedName(q, "x") : q \in Aliases}

Leaves == {Var(q) : q \in VarNames} \cup {ExprLiteral}

PatSeqs(k) == [1..k -> Pats]

RECURSIVE Exprs(_)
\* the expressions of at most n nodes (a lambda counts itself and its patterns)
Exprs(n) ==
    IF n <= 0 THEN {}
    ELSE Leaves \cup
         UNION { { Lam(ps, b) : ps \in PatSeqs(k), b \in Exprs(n - 1 - k) } : k \in 1..(n - 2) }

Unconditional(e) == [kind |-> "Unconditional", e |-> e]

Guarded == [kind |-> "Guarded"]

Rhs(n) == {Unconditional(e) : e \in Exprs(n)} \cup (IF n >= 1 THEN {Guarded} ELSE {})

CaseBranch(pats, expr) == [pats |-> pats, expr |-> expr]

Branches(n) ==
    UNION { { CaseBranch(ps, r) : ps \in PatSeqs(k), r \in Rhs(n - k) } : k \in 0..(n - 1) }

TypeConstructor(q) == [kind |-> "TypeConstructor", name |-> q]

Types == {TypeConstructor(QualifiedName(None, "x"))}

ValueDecl(type_) == [type_ |-> type_]

\* what one import contributes: (qualified_as, id)
ImportItems ==
    { <<None, DeclId("A", "x")>>, <<None, DeclId("B", "x")>>, <<"Q", DeclId("A", "x")>> }

ImportLists == UNION { [1..k -> ImportItems] : k \in 0..MaxImports }

RECURSIVE Body(_, _)
\* the expression d lambdas below e
Body(e, d) == IF d = 0 THEN e ELSE Body(e.expr, d - 1)

RECURSIVE SetBody(_, _, _)
\* e with the expression d lambdas below it replaced by new
SetBody(e, d, new) ==
    IF d = 0 THEN new ELSE [e EXCEPT !.expr = SetBody(e.expr, d - 1, new)]

-----------------------------------------------------------------------------
(* Renamer                                                                 *)

Front(s) == SubSeq(s, 1, Len(s) - 1)

Last(s) == s[Len(s)]

RECURSIVE collect(_)
\* .collect::<HashMap<_, _>>(): a later pair replaces an earlier one with the same key
collect(pairs) ==
    IF pairs = <<>> THEN <<>>
    ELSE LET m == collect(Front(pairs))
             p == Last(pairs)
         IN  [k \in (DOMAIN m) \cup {p[1]} |-> IF k = p[1] THEN p[2] ELSE m[k]]

\* the (key, value) pair rename_module makes of one import
scope_entry(imp) ==
    << QualifiedName(imp[1], imp[2].name), AbsoluteName(imp[2].module, imp[2].name) >>

build_module_scope(imports) == collect([k \in 1..Len(imports) |-> scope_entry(imports[k])])

push_scope(scopes) == Append(scopes, {})

\* the scope is left on the stack
pop_scope_keep(scopes) == scopes

\* pop_scope: the vector after Vec::pop
pop_scope(scopes) == IF scopes = <<>> THEN scopes ELSE Front(scopes)

\* whether the assert! of pop_scope passes
pop_scope_ok(scopes) == scopes # <<>>

\* whether the expect of top_scope passes
top_scope_ok(scopes) == scopes # <<>>

top_scope(scopes) == Last(scopes)

\* the binder goes into the scope rename_module created
insert_top_into_base(scopes, s) == [scopes EXCEPT ![1] = @ \cup {s}]

\* HashSet::insert into the top scope
insert_top(scopes, s) == [scopes EXCEPT ![Len(scopes)] = @ \cup {s}]

\* Type::rename
TypeRename(t) == t

\* Option<T>::rename over Type
OptionTypeRename(t) == IF t = Nil THEN Nil ELSE TypeRename(t)

\* a binder is a duplicate when any open scope holds it
PatOutcome_any_scope(pat, scopes) ==
    IF pat.kind # "Var" THEN "renaming PatKind not supported"
    ELSE IF ~top_scope_ok(scopes) THEN "top_scope called when there are no scopes"
    ELSE IF \E k \in 1..Len(scopes) : pat.name \in scopes[k]
         THEN "duplicate variable in pattern"
         ELSE "ok"

\* a pattern that is no variable binder is skipped
PatOutcome_skip_unsupported(pat, scopes) ==
    IF pat.kind # "Var" THEN "ok"
    ELSE IF ~top_scope_ok(scopes) THEN "top_scope called when there are no scopes"
    ELSE IF pat.name \in top_scope(scopes)
         THEN "duplicate variable in pattern"
         ELSE "ok"

\* PatKind::rename: "ok", or the message of the panic it ends in
PatOutcome(pat, scopes) ==
    IF pat.kind # "Var" THEN "renaming PatKind not supported"
    ELSE IF ~top_scope_ok(scopes) THEN "top_scope called when there are no scopes"
    ELSE IF pat.name \in top_scope(scopes)
         THEN "duplicate variable in pattern"
         ELSE "ok"

\* PatKind::rename: the scope stack it leaves
PatScopes(pat, scopes) ==
    IF pat.kind = "Var" /\ PatOutcome(pat, scopes) = "ok"
    THEN insert_top(scopes, pat.name)
    ELSE scopes

\* every open scope is searched, the innermost first
is_local_any_open_scope(q, scopes) ==
    q.module = None /\ \E k \in 1..Len(scopes) : q.name \in scopes[k]

\* the qualifier of the occurrence is not looked at
is_local_any_qualifier(q, scopes) == q.name \in top_scope(scopes)

\* the is_local of the Var arm of ExprKind::rename
is_local(q, scopes) == q.module = None /\ q.name \in top_scope(scopes)

\* a name that resolves nowhere is left as it is
VarOutcome_unknown_is_local(q, scopes, scope) ==
    IF ~top_scope_ok(scopes) THEN "top_scope called when there are no scopes" ELSE "ok"

\* ExprKind::rename on a Var: "ok", or the message of the panic it ends in
VarOutcome(q, scopes, scope) ==
    IF ~top_scope_ok(scopes) THEN "top_scope called when there are no scopes"
    ELSE IF is_local(q, scopes) THEN "ok"
    ELSE IF q \in DOMAIN scope THEN "ok"
    ELSE "unknown variable"

\* the module scope is looked up before the local scope
VarRenamed_module_first(q, scopes, scope) ==
    IF q \in DOMAIN scope THEN to_qualified_name(scope[q]) ELSE q

\* ExprKind::rename on a Var: the name the occurrence holds afterwards
VarRenamed(q, scopes, scope) ==
    IF ~top_scope_ok(scopes) THEN q
    ELSE IF is_local(q, scopes) THEN q
    ELSE IF q \in DOMAIN scope THEN to_qualified_name(scope[q])
    ELSE q

\* no call of rename_module has been made
RenamerIdle ==
    /\ pc = "start"
    /\ imported_decls = <<>>
    /\ module_scope = <<>>
    /\ local_scopes = <<>>
    /\ v = Nil
    /\ orig = Nil
    /\ x = Nil
    /\ i = 0
    /\ depth = 0
    /\ failure = None
    /\ unpopped = 0
    /\ entered = <<>>

\* no normalisation function is being applied
NormIdle ==
    /\ nphase = "off"
    /\ nacc = Nil
    /\ nargs = <<>>
    /\ nin = Nil
    /\ result = <<>>
    /\ nout = Nil

Init == RenamerIdle /\ NormIdle

\* a todo!, assert! or expect that fails ends the run
Panic(msg) ==
    /\ pc' = "panic"
    /\ failure' = msg

\* rename_module up to the call of module.rename
rename_module ==
    /\ pc = "start"
    /\ \E imports \in ImportLists :
         /\ imported_decls' = imports
         /\ module_scope' = build_module_scope(imports)
    /\ local_scopes' = << {} >>
    /\ pc' = "values"
    /\ UNCHANGED <<v, orig, x, i, depth, failure, unpopped, entered, nvars>>

\* IndexedModule::rename: the loop takes the next value declaration of the clone
IndexedModule_rename_next ==
    /\ pc = "values"
    /\ \E t \in Types \cup {Nil} : v' = ValueDecl(t)
    /\ pc' = "decl"
    /\ UNCHANGED <<imported_decls, module_scope, local_scopes, orig, x, i, depth, failure,
                   unpopped, entered, nvars>>

\* IndexedModule::rename: the loop is over and rename_module returns
IndexedModule_rename_end ==
    /\ pc = "values"
    /\ pc' = "done"
    /\ UNCHANGED <<imported_decls, module_scope, local_scopes, v, orig, x, i, depth,
                   failure, unpopped, entered, nvars>>

\* ValueDecl::rename: self.type_.rename(r), then the loop over the equations starts
ValueDecl_rename ==
    /\ pc = "decl"
    /\ v' = [v EXCEPT !.type_ = OptionTypeRename(v.type_)]
    /\ pc' = "equations"
    /\ UNCHANGED <<imported_decls, module_scope, local_scopes, orig, x, i, depth, failure,
                   unpopped, entered, nvars>>

\* ValueDecl::rename: the loop takes the next equation of self.equations.clone()
ValueDecl_rename_next ==
    /\ pc = "equations"
    /\ \E b \in Branches(MaxNodes) :
         /\ orig' = b
         /\ x' = b
    /\ pc' = "branch"
    /\ UNCHANGED <<imported_decls, module_scope, local_scopes, v, i, depth, failure,
                   unpopped, entered, nvars>>

\* ValueDecl::rename: the loop is over (a declaration has a signature or an equation)
ValueDecl_rename_end ==
    /\ pc = "equations"
    /\ pc' = "values"
    /\ UNCHANGED <<imported_decls, module_scope, local_scopes, v, orig, x, i, depth,
                   failure, unpopped, entered, nvars>>

\* CaseBranch::rename: r.push_scope()
CaseBranch_rename ==
    /\ pc = "branch"
    /\ entered' = Append(entered, Len(local_scopes))
    /\ local_scopes' = push_scope(local_scopes)
    /\ unpopped' = unpopped + 1
    /\ i' = 1
    /\ depth' = 0
    /\ pc' = "pats"
    /\ UNCHANGED <<imported_decls, module_scope, v, orig, x, failure, nvars>>

\* the patterns the pattern loop in progress runs over
CurrentPats == IF pc = "pats" THEN x.pats ELSE Body(x.expr.e, depth).pats

\* PatKind::rename on the next pattern of the loop
PatKind_rename ==
    /\ pc \in {"pats", "lam_pats"}
    /\ i <= Len(CurrentPats)
    /\ LET pat == CurrentPats[i]
           out == PatOutcome(pat, local_scopes)
       IN  IF out = "ok"
           THEN /\ local_scopes' = PatScopes(pat, local_scopes)
                /\ i' = i + 1
                /\ UNCHANGED <<pc, failure>>
           ELSE /\ Panic(out)
                /\ UNCHANGED <<local_scopes, i>>
    /\ UNCHANGED <<imported_decls, module_scope, v, orig, x, depth, unpopped, entered,
                   nvars>>

\* CaseBranch::rename: the pattern loop is over, self.expr.rename(r)
CaseBranch_rename_expr ==
    /\ pc = "pats"
    /\ i > Len(x.pats)
    /\ pc' = "rhs"
    /\ UNCHANGED <<imported_decls, module_scope, local_scopes, v, orig, x, i, depth,
                   failure, unpopped, entered, nvars>>

\* PossiblyGuardedExpr::rename
PossiblyGuardedExpr_rename ==
    /\ pc = "rhs"
    /\ IF x.expr.kind = "Unconditional"
       THEN /\ pc' = "expr"
            /\ UNCHANGED failure
       ELSE Panic("Pattern guards not implemented")
    /\ UNCHANGED <<imported_decls, module_scope, local_scopes, v, orig, x, i, depth,
                   unpopped, entered, nvars>>

\* the expression node ExprKind::rename is called on
CurrentExpr == Body(x.expr.e, depth)

\* ExprKind::rename, the Var arm
ExprKind_rename_Var ==
    /\ pc = "expr"
    /\ CurrentExpr.kind = "Var"
    /\ LET q == CurrentExpr.v
           out == VarOutcome(q, local_scopes, module_scope)
       IN  IF out = "ok"
           THEN /\ x' = [x EXCEPT !.expr.e =
                           SetBody(@, depth, Var(VarRenamed(q, local_scopes, module_scope)))]
                /\ pc' = "return"
                /\ UNCHANGED failure
           ELSE /\ Panic(out)
                /\ UNCHANGED x
    /\ UNCHANGED <<imported_decls, module_scope, local_scopes, v, orig, i, depth,
                   unpopped, entered, nvars>>

\* ExprKind::rename, the Lam arm: r.push_scope()
ExprKind_rename_Lam ==
    /\ pc = "expr"
    /\ CurrentExpr.kind = "Lam"
    /\ entered' = Append(entered, Len(local_scopes))
    /\ local_scopes' = push_scope(local_scopes)
    /\ unpopped' = unpopped + 1
    /\ i' = 1
    /\ pc' = "lam_pats"
    /\ UNCHANGED <<imported_decls, module_scope, v, orig, x, depth, failure, nvars>>

\* ExprKind::rename, the Lam arm: the pattern loop is over, expr.rename(r)
ExprKind_rename_Lam_expr ==
    /\ pc = "lam_pats"
    /\ i > Len(CurrentPats)
    /\ depth' = depth + 1
    /\ pc' = "expr"
    /\ UNCHANGED <<imported_decls, module_scope, local_scopes, v, orig, x, i, failure,
                   unpopped, entered, nvars>>

\* ExprKind::rename, the catch-all arm
ExprKind_rename_other ==
    /\ pc = "expr"
    /\ CurrentExpr.kind \notin {"Var", "Lam"}
    /\ Panic("renaming ExprKind not supported")
    /\ UNCHANGED <<imported_decls, module_scope, local_scopes, v, orig, x, i, depth,
                   unpopped, entered, nvars>>

\* r.pop_scope() of the construct that is returning
PopOnReturn ==
    /\ unpopped' = unpopped - 1
    /\ local_scopes' = pop_scope(local_scopes)
    /\ entered' = Front(entered)

\* ExprKind::rename, the Lam arm: r.pop_scope() after the body returned
ExprKind_rename_Lam_pop ==
    /\ pc = "return"
    /\ depth > 0
    /\ PopOnReturn
    /\ IF pop_scope_ok(local_scopes)
       THEN /\ depth' = depth - 1
            /\ UNCHANGED <<pc, failure>>
       ELSE /\ Panic("pop_scope called when there are no scopes")
            /\ UNCHANGED depth
    /\ UNCHANGED <<imported_decls, module_scope, v, orig, x, i, nvars>>

\* CaseBranch::rename: r.pop_scope() after self.expr returned; the loop of
\* ValueDecl::rename then drops the clone x and moves on
CaseBranch_rename_pop ==
    /\ pc = "return"
    /\ depth = 0
    /\ PopOnReturn
    /\ IF pop_scope_ok(local_scopes)
       THEN /\ pc' = "equations"
            /\ x' = Nil
            /\ orig' = Nil
            /\ UNCHANGED failure
       ELSE /\ Panic("pop_scope called when there are no scopes")
            /\ UNCHANGED <<x, orig>>
    /\ UNCHANGED <<imported_decls, module_scope, v, i, depth, nvars>>

Next ==
    \/ rename_module
    \/ IndexedModule_rename_next
    \/ IndexedModule_rename_end
    \/ ValueDecl_rename
    \/ ValueDecl_rename_next
    \/ ValueDecl_rename_end
    \/ CaseBranch_rename
    \/ PatKind_rename
    \/ CaseBranch_rename_expr
    \/ PossiblyGuardedExpr_rename
    \/ ExprKind_rename_Var
    \/ ExprKind_rename_Lam
    \/ ExprKind_rename_Lam_expr
    \/ ExprKind_rename_other
    \/ ExprKind_rename_Lam_pop
    \/ CaseBranch_rename_pop

Spec == Init /\ [][Next]_vars

-----------------------------------------------------------------------------
(* Parse-tree normalisation: normalize_app and apply_record_updates        *)

SourceSpan(start, end) == [start |-> start, end |-> end]

Located(span, node) == [span |-> span, node |-> node]

App(f, args) == [kind |-> "App", f |-> f, args |-> args]

RecordUpdate(e, update) == [kind |-> "RecordUpdate", e |-> e, update |-> update]

RecordUpdateSuffix(update) == [kind |-> "RecordUpdateSuffix", update |-> update]

LiteralInteger(n) == [kind |-> "Literal", lit |-> [kind |-> "Integer", value |-> n]]

\* the expressions of the source text `f r { x = 1 } { y: 2 } q`
ExprF == Located(SourceSpan(0, 1), Var(QualifiedName(None, "f")))

ExprR == Located(SourceSpan(2, 3), Var(QualifiedName(None, "r")))

ExprQ == Located(SourceSpan(23, 24), Var(QualifiedName(None, "q")))

SuffixX ==
    Located(SourceSpan(4, 13),
            RecordUpdateSuffix(<< <<"x", Located(SourceSpan(10, 11), LiteralInteger(1))>> >>))

SuffixY ==
    Located(SourceSpan(14, 22),
            RecordUpdateSuffix(<< <<"y", Located(SourceSpan(19, 20), LiteralInteger(2))>> >>))

\* the expression of the source text `(f r)`
ExprApp == Located(SourceSpan(0, 5), App(ExprF, <<ExprR>>))

NormAtoms == {ExprF, ExprR, ExprQ}

\* the expressions an application is built from
NormExprs == NormAtoms \cup {ExprApp}

NormSuffixes == {SuffixX, SuffixY}

\* the spans the grammar may give the application it has built
NormSpans == {SourceSpan(0, 3), SourceSpan(0, 24)}

NormInputs(S) ==
    { [f |-> f, args |-> as] : f \in NormExprs, as \in UNION { [1..k -> S] : k \in 0..MaxArgs } }

\* an application is built inside its outermost application
normalize_app_nested(f, arg) == App(f, <<arg>>)

\* normalize_app(f, x), the parameter x under the name arg
normalize_app(f, arg) ==
    IF f.node.kind = "App"
    THEN App(f.node.f, Append(f.node.args, arg))
    ELSE App(f, <<arg>>)

IsSuffix(expr) == expr.node.kind = "RecordUpdateSuffix"

\* the record update takes the span of the expression it wraps
aru_body_span_of_last(res, expr) ==
    IF IsSuffix(expr)
    THEN Append(Front(res), Located(Last(res).span, RecordUpdate(Last(res), expr.node.update)))
    ELSE Append(res, expr)

\* apply_record_updates: `result` after the body of the loop has run on expr
aru_body(res, expr) ==
    IF IsSuffix(expr)
    THEN Append(Front(res), Located(expr.span, RecordUpdate(Last(res), expr.node.update)))
    ELSE Append(res, expr)

\* apply_record_updates: whether result.pop().expect("should be non-empty") passes
aru_pop_ok(res) == res # <<>>

\* apply_record_updates: whether result.remove(0) passes
aru_remove_ok(res) == res # <<>>

-----------------------------------------------------------------------------
(* Parse-tree normalisation: expr_to_pat and lit_expr_to_pat               *)

\* nodes of one expression handed to expr_to_pat
MaxPatNodes == 4

Infix(e, xs) == [kind |-> "Infix", e |-> e, xs |-> xs]

Accessor(e, field) == [kind |-> "Accessor", e |-> e, field |-> field]

Operator(op) == [kind |-> "Operator", op |-> op]

DataConstructor(q) == [kind |-> "DataConstructor", name |-> q]

Case(expr, branches) == [kind |-> "Case", expr |-> expr, branches |-> branches]

If(cond, then_, else_) == [kind |-> "If", cond |-> cond, then_ |-> then_, else_ |-> else_]

Typed(e, ty) == [kind |-> "Typed", e |-> e, ty |-> ty]

Let(decls, body) == [kind |-> "Let", decls |-> decls, body |-> body]

Wildcard == [kind |-> "Wildcard"]

NamedPat(name, e) == [kind |-> "NamedPat", name |-> name, e |-> e]

Do(items) == [kind |-> "Do", items |-> items]

Ado(items, e) == [kind |-> "Ado", items |-> items, e |-> e]

Negate(e) == [kind |-> "Negate", e |-> e]

LiteralArray(xs) == [kind |-> "Literal", lit |-> [kind |-> "Array", xs |-> xs]]

LiteralObject(xs) == [kind |-> "Literal", lit |-> [kind |-> "Object", xs |-> xs]]

PatLiteral(lit) == [kind |-> "Literal", lit |-> lit]

PatInfix(p, xs) == [kind |-> "Infix", p |-> p, xs |-> xs]

PatDataConstructorApp(q, args) == [kind |-> "DataConstructorApp", name |-> q, args |-> args]

PatNamed(name, p) == [kind |-> "Named", name |-> name, p |-> p]

PatTyped(p, ty) == [kind |-> "Typed", p |-> p, ty |-> ty]

\* Result<_, String>: Ok(value) and Err(message)
Ok(value) == [tag |-> "Ok", pat |-> value]

Err(msg) == [tag |-> "Err", msg |-> msg]

\* the match of expr_to_pat has no arm for the variant
NoArm == [tag |-> "NoArm"]

\* the variants of ExprKind
ExprKinds ==
    {"Literal", "Infix", "Accessor", "RecordUpdate", "Var", "Operator", "DataConstructor",
     "App", "Lam", "Case", "If", "Typed", "Let", "Wildcard", "RecordUpdateSuffix",
     "NamedPat", "Do", "Ado", "Negate"}

\* QualifiedName::is_actually_qualified
is_actually_qualified(q) == q.module # None

RECURSIVE expr_to_pat(_)
RECURSIVE lit_expr_to_pat(_)
RECURSIVE map_expr_to_pat(_)

\* xs.into_iter().map(|x| expr_to_pat(x)).collect::<Result<_, _>>()
map_expr_to_pat(xs) ==
    IF xs = <<>> THEN Ok(<<>>)
    ELSE LET first == expr_to_pat(Head(xs)) IN
         IF first.tag # "Ok" THEN first
         ELSE LET rest == map_expr_to_pat(Tail(xs)) IN
              IF rest.tag # "Ok" THEN rest ELSE Ok(<<first.pat>> \o rest.pat)

\* xs.into_iter().map(|(k, x)| Ok((k, expr_to_pat(x)?))).collect::<Result<_, _>>()
map_keyed_expr_to_pat(xs) ==
    LET converted == map_expr_to_pat([j \in 1..Len(xs) |-> xs[j][2]]) IN
    IF converted.tag # "Ok" THEN converted
    ELSE Ok([j \in 1..Len(xs) |-> <<xs[j][1], converted.pat[j]>>])

lit_expr_to_pat(lit) ==
    CASE lit.kind = "Array" ->
           LET xs == map_expr_to_pat(lit.xs) IN
           IF xs.tag # "Ok" THEN xs ELSE Ok([kind |-> "Array", xs |-> xs.pat])
      [] lit.kind = "Object" ->
           LET xs == map_keyed_expr_to_pat(lit.xs) IN
           IF xs.tag # "Ok" THEN xs ELSE Ok([kind |-> "Object", xs |-> xs.pat])
      [] OTHER -> Ok(lit)

\* the operands after the first are taken over as they are
expr_to_pat_infix_first_only(span, first, rest) ==
    LET p == expr_to_pat(first) IN
    IF p.tag # "Ok" THEN p ELSE Ok(Located(span, PatInfix(p.pat, rest)))

\* the arm Infix of expr_to_pat, which is also its arm RecordUpdate
expr_to_pat_infix(span, first, rest) ==
    LET p == expr_to_pat(first) IN
    IF p.tag # "Ok" THEN p
    ELSE LET xs == map_keyed_expr_to_pat(rest) IN
         IF xs.tag # "Ok" THEN xs ELSE Ok(Located(span, PatInfix(p.pat, xs.pat)))

expr_to_pat(expr) ==
    LET span == expr.span
        kind == expr.node
    IN  CASE kind.kind = "Literal" ->
               LET lit == lit_expr_to_pat(kind.lit) IN
               IF lit.tag # "Ok" THEN lit ELSE Ok(Located(span, PatLiteral(lit.pat)))
          [] kind.kind = "Infix" -> expr_to_pat_infix(span, kind.e, kind.xs)
          [] kind.kind = "Accessor" -> Err("Illegal record accessor in pattern")
          [] kind.kind = "RecordUpdate" -> expr_to_pat_infix(span, kind.e, kind.update)
          [] kind.kind = "Var" ->
               IF is_actually_qualified(kind.v)
               THEN Err("Illegal qualified name in pattern")
               ELSE Ok(Located(span, PatVar(kind.v.name)))
          [] kind.kind = "DataConstructor" ->
               Ok(Located(span, PatDataConstructorApp(kind.name, <<>>)))
          [] kind.kind = "App" ->
               IF kind.f.node.kind = "DataConstructor"
               THEN LET args == map_expr_to_pat(kind.args) IN
                    IF args.tag # "Ok" THEN args
                    ELSE Ok(Located(span, PatDataConstructorApp(kind.f.node.name, args.pat)))
               ELSE Err("illegal pattern in data constructor position")
          [] kind.kind = "Lam" -> Err("Illegal lambda in pattern")
          [] kind.kind = "Case" -> Err("Illegal case in pattern")
          [] kind.kind = "If" -> Err("Illegal if in pattern")
          [] kind.kind = "Typed" ->
               LET p == expr_to_pat(kind.e) IN
               IF p.tag # "Ok" THEN p ELSE Ok(Located(span, PatTyped(p.pat, kind.ty)))
          [] kind.kind = "Let" -> Err("Illegal let in pattern")
          [] kind.kind = "Wildcard" -> Ok(Located(span, PatWildcard))
          [] kind.kind = "RecordUpdateSuffix" -> Err("Illegal record update in pattern")
          [] kind.kind = "Do" -> Err("Illegal do in pattern")
          [] kind.kind = "NamedPat" ->
               LET p == expr_to_pat(kind.e) IN
               IF p.tag # "Ok" THEN p ELSE Ok(Located(span, PatNamed(kind.name, p.pat)))
          [] OTHER -> NoArm

\* the span of every node of an input of expr_to_pat
PatSpan == SourceSpan(0, 1)

\* the operands of one node of an input of expr_to_pat
MaxPatOperands == 3

\* the variants an input of expr_to_pat is built from, by the number of
\* expressions directly below the node
PatKindsOf(k) ==
    CASE k = 0 -> {"Integer", "Var", "QualifiedVar", "DataConstructor", "Wildcard", "Lam"}
      [] k = 1 -> {"Array", "Object", "Accessor", "Typed", "RecordUpdateSuffix", "NamedPat",
                   "Negate"}
      [] k = 2 -> {"Array", "Infix", "RecordUpdate", "App"}
      [] OTHER -> {"App"}

\* the variants whose arm reads no part of the node, and the ones that have no arm
PatOpaqueKinds == {"Operator", "Case", "If", "Let", "Do", "Ado"}

\* the node of the variant `kind` over the expressions s
PatNode(kind, s) ==
    CASE kind = "Integer" -> LiteralInteger(1)
      [] kind = "Var" -> Var(QualifiedName(None, "a"))
      [] kind = "QualifiedVar" -> Var(QualifiedName("Q", "x"))
      [] kind = "DataConstructor" -> DataConstructor(QualifiedName(None, "Just"))
      [] kind = "Wildcard" -> Wildcard
      [] kind = "Lam" -> Lam(<<PatVar("a")>>, ExprLiteral)
      [] kind = "Operator" -> Operator("+")
      [] kind = "Case" -> Case(ExprLiteral, <<>>)
      [] kind = "If" -> If(ExprLiteral, ExprLiteral, ExprLiteral)
      [] kind = "Let" -> Let(<<>>, ExprLiteral)
      [] kind = "Do" -> Do(<<>>)
      [] kind = "Ado" -> Ado(<<>>, ExprLiteral)
      [] kind = "Array" -> LiteralArray(s)
      [] kind = "Object" -> LiteralObject(<< <<"x", s[1]>> >>)
      [] kind = "Accessor" -> Accessor(s[1], "x")
      [] kind = "Typed" -> Typed(s[1], TypeConstructor(QualifiedName(None, "x")))
      [] kind = "RecordUpdateSuffix" -> RecordUpdateSuffix(<< <<"x", s[1]>> >>)
      [] kind = "NamedPat" -> NamedPat("a", s[1])
      [] kind = "Negate" -> Negate(s[1])
      [] kind = "Infix" -> Infix(s[1], << <<"+", s[2]>> >>)
      [] kind = "RecordUpdate" -> RecordUpdate(s[1], << <<"x", s[2]>> >>)
      [] kind = "App" -> App(Head(s), Tail(s))

RECURSIVE PatExprSeqs(_, _, _)
\* the sequences of k expressions of n nodes in all, levels[m] being the
\* expressions of m nodes
PatExprSeqs(levels, n, k) ==
    IF k = 0 THEN (IF n = 0 THEN {<<>>} ELSE {})
    ELSE UNION { { <<e>> \o s : e \in levels[m], s \in PatExprSeqs(levels, n - m, k - 1) } :
                 m \in { j \in 1..(n - k + 1) : j <= Len(levels) } }

\* the expressions of exactly n nodes, built from the smaller ones
PatExprsOf(levels, n) ==
    UNION { { Located(PatSpan, PatNode(kind, s)) :
                kind \in PatKindsOf(k), s \in PatExprSeqs(levels, n - 1, k) } :
            k \in 0..MaxPatOperands }

RECURSIVE PatLevels(_)
\* the expressions of 1, 2, ..., n nodes
PatLevels(n) ==
    IF n <= 0 THEN <<>>
    ELSE LET levels == PatLevels(n - 1) IN Append(levels, PatExprsOf(levels, n))

\* the expressions that may stand below the top node of an input
PatOperands == PatLevels(MaxPatNodes - 1)

-----------------------------------------------------------------------------
(* The drivers of the normalisation functions                              *)

NormInit ==
    /\ RenamerIdle
    /\ \/ /\ nphase = "normalize_app"
          /\ nin \in NormInputs(NormExprs)
          /\ nacc = nin.f
          /\ nargs = nin.args
       \/ /\ nphase = "aru_call"
          /\ nin \in NormInputs(NormExprs \cup NormSuffixes)
          /\ nacc = Nil
          /\ nargs = nin.args
       \/ /\ nphase = "expr_to_pat"
          /\ \E n \in 1..MaxPatNodes, k \in 0..MaxPatOperands :
                \E s \in PatExprSeqs(PatOperands, n - 1, k) :
                   \E kind \in PatKindsOf(k) \cup (IF k = 0 THEN PatOpaqueKinds ELSE {}) :
                      nin = Located(PatSpan, PatNode(kind, s))
          /\ nacc = Nil
          /\ nargs = <<>>
    /\ result = <<>>
    /\ nout = Nil

\* the grammar applies normalize_app to what it has built and the next argument
normalize_app_next ==
    /\ nphase = "normalize_app"
    /\ nargs # <<>>
    /\ \E span \in NormSpans : nacc' = Located(span, normalize_app(nacc, Head(nargs)))
    /\ nargs' = Tail(nargs)
    /\ UNCHANGED <<nphase, nin, result, nout, rvars>>

\* apply_record_updates: let mut result = vec![f]
apply_record_updates_begin ==
    /\ nphase = "aru_call"
    /\ result' = <<nin.f>>
    /\ nphase' = "aru_loop"
    /\ UNCHANGED <<nacc, nargs, nin, nout, rvars>>

\* apply_record_updates: the body of the loop on the next argument
apply_record_updates_next ==
    /\ nphase = "aru_loop"
    /\ nargs # <<>>
    /\ IF IsSuffix(Head(nargs)) /\ ~aru_pop_ok(result)
       THEN /\ nphase' = "aru_panic"
            /\ UNCHANGED result
       ELSE /\ result' = aru_body(result, Head(nargs))
            /\ UNCHANGED nphase
    /\ nargs' = Tail(nargs)
    /\ UNCHANGED <<nacc, nin, nout, rvars>>

\* apply_record_updates: result.remove(0) and the App returned
apply_record_updates_end ==
    /\ nphase = "aru_loop"
    /\ nargs = <<>>
    /\ IF aru_remove_ok(result)
       THEN /\ nout' = App(Head(result), Tail(result))
            /\ nphase' = "aru_done"
       ELSE /\ nphase' = "aru_panic"
            /\ UNCHANGED nout
    /\ UNCHANGED <<nacc, nargs, nin, result, rvars>>

\* the grammar hands an expression to expr_to_pat
expr_to_pat_call ==
    /\ nphase = "expr_to_pat"
    /\ nout' = expr_to_pat(nin)
    /\ nphase' = "expr_to_pat_done"
    /\ UNCHANGED <<nacc, nargs, nin, result, rvars>>

NormNext ==
    \/ normalize_app_next
    \/ apply_record_updates_begin
    \/ apply_record_updates_next
    \/ apply_record_updates_end
    \/ expr_to_pat_call

SpecNorm == NormInit /\ [][NormNext]_vars

-----------------------------------------------------------------------------
(* Parse-tree normalisation: constraint_to_instance_head and               *)
(* constraint_to_class_head.  Both are loops over the variable t; a run of *)
(* SpecHead is one call, one step for each turn of its loop.               *)

\* type applications in one constraint
MaxTypeApps == 2

TypeApp(f, arg) == [kind |-> "TypeApp", f |-> f, x |-> arg]

TypeVar(name) == [kind |-> "Var", v |-> name]

\* Option::Some
Some(value) == [kind |-> "Some", value |-> value]

\* the span of every node of a constraint
TypeSpan == SourceSpan(0, 1)

TypeLeaves ==
    { Located(TypeSpan, node) :
        node \in { TypeConstructor(QualifiedName(None, "Foo")),
                   TypeConstructor(QualifiedName("Q", "Foo")),
                   TypeConstructor(QualifiedName(None, "Int")),
                   TypeVar("a"), TypeVar("b") } }

\* the types of exactly n type applications, levels[m + 1] being the types of m
TypesOf(levels, n) ==
    UNION { { Located(TypeSpan, TypeApp(f, arg)) : f \in levels[m + 1], arg \in levels[n - m] } :
            m \in 0..(n - 1) }

RECURSIVE TypeLevels(_)
\* the types of 0, 1, ..., n type applications
TypeLevels(n) ==
    IF n <= 0 THEN <<TypeLeaves>>
    ELSE LET levels == TypeLevels(n - 1) IN Append(levels, TypesOf(levels, n))

\* the constraints the grammar may hand over
HeadInputs == UNION { TypeLevels(MaxTypeApps)[n + 1] : n \in 0..MaxTypeApps }

\* Vec::reverse
reverse(s) == [j \in 1..Len(s) |-> s[Len(s) + 1 - j]]

\* the arguments are returned in the order the loop met them
constraint_to_instance_head_body_unreversed(t, args) ==
    CASE t.node.kind = "TypeConstructor" ->
           [ret |-> TRUE, value |-> Some(<<t.node.name, args>>)]
      [] t.node.kind = "TypeApp" ->
           [ret |-> FALSE, t |-> t.node.f, args |-> Append(args, t.node.x)]
      [] OTHER -> [ret |-> TRUE, value |-> Nil]

\* constraint_to_instance_head: one turn of the loop, on t and args
constraint_to_instance_head_body(t, args) ==
    CASE t.node.kind = "TypeConstructor" ->
           [ret |-> TRUE, value |-> Some(<<t.node.name, reverse(args)>>)]
      [] t.node.kind = "TypeApp" ->
           [ret |-> FALSE, t |-> t.node.f, args |-> Append(args, t.node.x)]
      [] OTHER -> [ret |-> TRUE, value |-> Nil]

RECURSIVE constraint_to_instance_head_loop(_, _)
\* constraint_to_instance_head: the loop from t and args on
constraint_to_instance_head_loop(t, args) ==
    LET turn == constraint_to_instance_head_body(t, args) IN
    IF turn.ret THEN turn.value ELSE constraint_to_instance_head_loop(turn.t, turn.args)

constraint_to_instance_head(c) == constraint_to_instance_head_loop(c, <<>>)

\* a qualified class name is taken as it is
constraint_to_class_head_body_any_head(t, params) ==
    CASE t.node.kind = "TypeConstructor" ->
           [ret |-> TRUE, value |-> Some(<<t.node.name.name, reverse(params)>>)]
      [] t.node.kind = "TypeApp" ->
           IF t.node.x.node.kind = "Var"
           THEN [ret |-> FALSE, t |-> t.node.f, args |-> Append(params, <<t.node.x.node.v, None>>)]
           ELSE [ret |-> TRUE, value |-> Nil]
      [] OTHER -> [ret |-> TRUE, value |-> Nil]

\* constraint_to_class_head: one turn of the loop, on t and params
constraint_to_class_head_body(t, params) ==
    CASE t.node.kind = "TypeConstructor" ->
           IF is_actually_qualified(t.node.name)
           THEN [ret |-> TRUE, value |-> Nil]
           ELSE [ret |-> TRUE, value |-> Some(<<t.node.name.name, reverse(params)>>)]
      [] t.node.kind = "TypeApp" ->
           IF t.node.x.node.kind = "Var"
           THEN [ret |-> FALSE, t |-> t.node.f, args |-> Append(params, <<t.node.x.node.v, None>>)]
           ELSE [ret |-> TRUE, value |-> Nil]
      [] OTHER -> [ret |-> TRUE, value |-> Nil]

HeadInit ==
    /\ RenamerIdle
    /\ nphase \in {"instance_head", "class_head"}
    /\ nin \in HeadInputs
    /\ nacc = nin
    /\ nargs = <<>>
    /\ result = <<>>
    /\ nout = Nil

\* constraint_to_instance_head: one turn of the loop
constraint_to_instance_head_next ==
    /\ nphase = "instance_head"
    /\ LET turn == constraint_to_instance_head_body(nacc, result) IN
       IF turn.ret
       THEN /\ nout' = turn.value
            /\ nphase' = "instance_head_done"
            /\ UNCHANGED <<nacc, result>>
       ELSE /\ nacc' = turn.t
            /\ result' = turn.args
            /\ UNCHANGED <<nphase, nout>>
    /\ UNCHANGED <<nargs, nin, rvars>>

\* constraint_to_class_head: one turn of the loop
constraint_to_class_head_next ==
    /\ nphase = "class_head"
    /\ LET turn == constraint_to_class_head_body(nacc, result) IN
       IF turn.ret
       THEN /\ nout' = turn.value
            /\ nphase' = "class_head_done"
            /\ UNCHANGED <<nacc, result>>
       ELSE /\ nacc' = turn.t
            /\ result' = turn.args
            /\ UNCHANGED <<nphase, nout>>
    /\ UNCHANGED <<nargs, nin, rvars>>

HeadNext ==
    \/ constraint_to_instance_head_next
    \/ constraint_to_class_head_next

\* a call that has started keeps running: nothing else runs in the parser
SpecHead == HeadInit /\ [][HeadNext]_vars /\ WF_vars(HeadNext)

-----------------------------------------------------------------------------
(* Properties of the renamer, checked under Spec                           *)

\* ExprKind::rename is about to run on a variable occurrence
AtVar == pc = "expr" /\ CurrentExpr.kind = "Var"

\* PatKind::rename is about to run on the next pattern of a pattern loop
AtPat == pc \in {"pats", "lam_pats"} /\ i <= Len(CurrentPats)

\* the clause `f a = a` of the smoke test
SmokeClause ==
    CaseBranch(<<PatVar("a")>>, Unconditional(Var(QualifiedName(None, "a"))))

\* C1, its instance `f a = a`: the body reference to the parameter is not rewritten
C1_Smoke == (pc = "return" /\ orig = SmokeClause) => x = orig

\* C1, one step of ExprKind::rename on an occurrence q with top scope S and module
\* scope M: unqualified q with its symbol in S is left unchanged; any other q
\* whose (qualifier, symbol) key is in M becomes the name qualified by the module
\* that defines M[q], and nothing else of the equation changes
C1_Step ==
    AtVar =>
        LET q == CurrentExpr.v
            S == top_scope(local_scopes)
            M == module_scope
        IN  /\ (q.module = None /\ q.name \in S) => (pc' = "return" /\ x' = x)
            /\ (~(q.module = None /\ q.name \in S) /\ q \in DOMAIN M) =>
                   /\ pc' = "return"
                   /\ Body(x'.expr.e, depth).kind = "Var"
                   /\ Body(x'.expr.e, depth).v = QualifiedName(M[q].module, M[q].name)
                   /\ x'.pats = x.pats
                   /\ \A d \in 0..(depth - 1) :
                          /\ Body(x'.expr.e, d).kind = "Lam"
                          /\ Body(x'.expr.e, d).pats = Body(x.expr.e, d).pats

\* C1: renaming a variable occurrence leaves a local one untouched and rewrites
\* any other one the module scope knows, a qualified one included, to the name
\* anchored to its defining module; in `f a = a` the body stays a local reference
C1_VarRename == [](C1_Smoke) /\ [][C1_Step]_vars

\* C1: the clause `f x = Q.x` was renamed: the qualified occurrence, whose symbol
\* is in the top scope, now holds the absolute name A.x
C1_Witness ==
    /\ pc = "return"
    /\ depth = 0
    /\ orig = CaseBranch(<<PatVar("x")>>, Unconditional(Var(QualifiedName("Q", "x"))))
    /\ "x" \in top_scope(local_scopes)
    /\ x.expr.e = Var(QualifiedName("A", "x"))

\* C2: when CaseBranch::rename has renamed an equation, the equation of the
\* module the caller passed holds the rewritten occurrences
C2_InPlace == (pc = "return" /\ depth = 0) => orig = x

\* C3: a variable reference whose symbol is not in the top local scope and whose
\* key is not in the module scope ends in the unknown-variable failure, and the
\* occurrence is neither kept as a local nor rewritten
C3_Unresolved ==
    [][ (AtVar /\ CurrentExpr.v.name \notin top_scope(local_scopes)
               /\ CurrentExpr.v \notin DOMAIN module_scope)
        => (pc' = "panic" /\ failure' = "unknown variable" /\ x' = x) ]_vars

\* C3: a run ended in the unknown-variable failure at such a reference
C3_Witness ==
    /\ pc = "panic"
    /\ failure = "unknown variable"
    /\ CurrentExpr.v.name \notin top_scope(local_scopes)
    /\ CurrentExpr.v \notin DOMAIN module_scope
    /\ x = orig

\* C4: renaming a variable binder fails with the duplicate-binder failure exactly
\* when its symbol is already in the top scope, and otherwise inserts the symbol
\* into the top scope alone, whatever the scopes below it hold
C4_Binder ==
    [][ (AtPat /\ CurrentPats[i].kind = "Var")
        => LET s == CurrentPats[i].name
               n == Len(local_scopes)
           IN  IF s \in local_scopes[n]
               THEN pc' = "panic" /\ failure' = "duplicate variable in pattern"
               ELSE /\ failure' = None
                    /\ pc' = pc
                    /\ local_scopes' = [local_scopes EXCEPT ![n] = @ \cup {s}] ]_vars

\* C4: a lambda has bound a symbol that the scope below its own holds too
C4_Witness ==
    /\ pc = "lam_pats"
    /\ failure = None
    /\ i = 2
    /\ CurrentPats[1].kind = "Var"
    /\ CurrentPats[1].name \in local_scopes[Len(local_scopes)]
    /\ CurrentPats[1].name \in local_scopes[Len(local_scopes) - 1]

\* the reference is the body of a lambda that binds its symbol, and a scope below
\* that lambda's holds the symbol too
Shadowed ==
    /\ depth >= 1
    /\ CurrentExpr.kind = "Var"
    /\ CurrentExpr.v.module = None
    /\ CurrentExpr.v.name \in top_scope(local_scopes)
    /\ \E k \in 1..(Len(local_scopes) - 1) : CurrentExpr.v.name \in local_scopes[k]

ScopeAssertions ==
    {"pop_scope called when there are no scopes", "top_scope called when there are no scopes"}

\* C6, as a state predicate: at completion no push is unmatched and the stack has
\* the depth rename_module gave it; the stack is not empty where top_scope or
\* pop_scope is called, and neither assertion has fired
C6_State ==
    /\ pc = "done" => (unpopped = 0 /\ Len(local_scopes) = 1)
    /\ (AtPat \/ pc \in {"expr", "return"}) => local_scopes # <<>>
    /\ failure \notin ScopeAssertions

\* C6, one step: the pop of a CaseBranch or lambda restores the depth it found
C6_Step == (pc = "return" /\ pc' # "panic") => Len(local_scopes') = Last(entered)

\* C6: scope-stack balance: in a run that completes the calls of push_scope and
\* pop_scope are equal in number, each CaseBranch and lambda restores the depth
\* it found, the stack is never empty at top_scope or pop_scope, and the depth at
\* completion is the initial one
C6_Balance == [](C6_State) /\ [][C6_Step]_vars

\* C6: a run completed after a pattern loop had renamed a binder
C6_Witness == pc = "done" /\ i >= 2 /\ unpopped = 0 /\ Len(local_scopes) = 1

\* the import list contributes the name q, as written, for two declarations that
\* different modules own
Ambiguous(q) ==
    \E j, k \in 1..Len(imported_decls) :
        /\ QualifiedName(imported_decls[j][1], imported_decls[j][2].name) = q
        /\ QualifiedName(imported_decls[k][1], imported_decls[k][2].name) = q
        /\ imported_decls[j][2].module # imported_decls[k][2].module

\* C7: a non-local reference to a name the import list makes ambiguous ends in
\* a failure and is not rewritten to either absolute name
C7_AmbiguousRejected ==
    [][ (AtVar /\ ~is_local(CurrentExpr.v, local_scopes) /\ Ambiguous(CurrentExpr.v))
        => (pc' = "panic" /\ x' = x) ]_vars

\* the renamer is about to run on a node of a shape that it does not handle
AtUnhandled ==
    \/ pc = "decl" /\ v.type_ # Nil
    \/ AtPat /\ CurrentPats[i].kind # "Var"
    \/ pc = "rhs" /\ x.expr.kind # "Unconditional"
    \/ pc = "expr" /\ CurrentExpr.kind \notin {"Var", "Lam"}

\* C8 as stated: every node the renamer reaches and does not handle ends the run
\* in a failure
C8_AllUnhandledFail == [][ AtUnhandled => pc' = "panic" ]_vars

\* C8, one step of the amended claim
C8_Step ==
    /\ (AtPat /\ CurrentPats[i].kind # "Var")
           => (pc' = "panic" /\ failure' = "renaming PatKind not supported")
    /\ (pc = "rhs" /\ x.expr.kind # "Unconditional")
           => (pc' = "panic" /\ failure' = "Pattern guards not implemented")
    /\ (pc = "expr" /\ CurrentExpr.kind \notin {"Var", "Lam"})
           => (pc' = "panic" /\ failure' = "renaming ExprKind not supported")
    /\ (AtUnhandled /\ pc # "decl") => (x' = x /\ local_scopes' = local_scopes)
    /\ pc = "decl" => (pc' = "equations" /\ failure' = None /\ v' = v)

\* C8, amended: an expression other than a variable reference or lambda, a
\* pattern other than a variable binder and a guarded right-hand side each end
\* the run in a not-implemented failure and are not skipped; the type signature
\* of a value declaration is reached and left as it is, without a failure
C8_UnhandledFail == [][C8_Step]_vars

\* C8: the signature of a declaration was passed over without a failure and a
\* guarded right-hand side of that declaration then ended the run
C8_Witness ==
    /\ pc = "panic"
    /\ failure = "Pattern guards not implemented"
    /\ v.type_ # Nil
    /\ x.expr = Guarded
-----------------------------------------------------------------------------
(* Properties of the normalisation functions, checked under SpecNorm       *)

\* the arguments normalize_app has been given so far
Consumed == SubSeq(nin.args, 1, Len(nin.args) - Len(nargs))

\* C9 as stated: f applied to a, b, c in turn is App(f, [a, b, c]), whatever f
\* is, and the head of the App is no App
C9_AnyHead ==
    (nphase = "normalize_app" /\ Len(Consumed) = 3)
        => (nacc.node = App(nin.f, Consumed) /\ nacc.node.f.node.kind # "App")

\* C9, amended: successive normalize_app on a head f that is not itself an App
\* gives exactly App(f, arguments in application order), whose head is no App;
\* on a head App(f0, args0) it gives App(f0, args0 followed by the arguments)
C9_Flatten ==
    (nphase = "normalize_app" /\ Consumed # <<>>)
        => IF nin.f.node.kind # "App"
           THEN nacc.node = App(nin.f, Consumed) /\ nacc.node.f.node.kind # "App"
           ELSE nacc.node = App(nin.f.node.f, nin.f.node.args \o Consumed)

\* C9: f was applied to r, q and (f r) in turn and the result is one flat App
C9_Witness ==
    /\ nphase = "normalize_app"
    /\ nin = [f |-> ExprF, args |-> <<ExprR, ExprQ, ExprApp>>]
    /\ nargs = <<>>
    /\ nacc.node = App(ExprF, <<ExprR, ExprQ, ExprApp>>)

\* the places of the operands (the expressions that are no suffix) in L
OperandPlaces(L) ==
    LET NoSuffix(j) == ~IsSuffix(L[j])
    IN  SelectSeq([j \in 1..Len(L) |-> j], NoSuffix)

\* the place of the last of the suffixes that follow place j directly
RunEnd(L, j) ==
    CHOOSE k \in j..Len(L) :
        /\ \A n \in (j + 1)..k : IsSuffix(L[n])
        /\ k = Len(L) \/ ~IsSuffix(L[k + 1])

RECURSIVE Nest(_, _, _, _)
\* e wrapped by the suffixes at places j..k of L, the first innermost, each
\* record update under the span of its suffix
Nest(L, e, j, k) ==
    IF j > k THEN e
    ELSE Nest(L, Located(L[j].span, RecordUpdate(e, L[j].node.update)), j + 1, k)

\* every operand of L, in order, wrapped by the suffixes that follow it
Grouped(L) ==
    LET ops == OperandPlaces(L)
    IN  [n \in 1..Len(ops) |-> Nest(L, L[ops[n]], ops[n] + 1, RunEnd(L, ops[n]))]

\* C10, in every state: the accumulator is never empty and neither the pop nor
\* the removal of the head fails; the value returned is App(first, rest) of the
\* operands in their order, each under the updates of the suffixes that follow
\* it, nested left to right; `f r { x = 1 } { y: 2 } q` gives the App of the test
C10_State ==
    /\ nphase # "aru_panic"
    /\ nphase = "aru_loop" => Len(result) >= 1
    /\ nphase = "aru_done" =>
           LET g == Grouped(<<nin.f>> \o nin.args)
           IN  nout = App(g[1], Tail(g))
    /\ (nphase = "aru_done" /\ nin = [f |-> ExprF, args |-> <<ExprR, SuffixX, SuffixY, ExprQ>>]) =>
           nout = App(ExprF,
                      << Located(SuffixY.span,
                                 RecordUpdate(Located(SuffixX.span,
                                                      RecordUpdate(ExprR, SuffixX.node.update)),
                                              SuffixY.node.update)),
                         ExprQ >>)

\* C10, one step of the loop: a suffix replaces the last accumulated element e by
\* RecordUpdate(e, fields) under the suffix's span, any other argument is appended
C10_Step ==
    (nphase = "aru_loop" /\ nargs # <<>>) =>
        LET expr == Head(nargs)
            n == Len(result)
        IN  IF expr.node.kind = "RecordUpdateSuffix"
            THEN /\ Len(result') = n
                 /\ \A j \in 1..(n - 1) : result'[j] = result[j]
                 /\ result'[n] = Located(expr.span, RecordUpdate(result[n], expr.node.update))
            ELSE result' = result \o <<expr>>

\* C10: apply_record_updates runs left to right over an accumulator that starts
\* as [f] and is never empty; suffixes nest left to right on the operand before
\* them and the other arguments keep their order
C10_RecordUpdates ==
    /\ [](C10_State)
    /\ [][nphase = "aru_call" => result' = <<nin.f>>]_vars
    /\ [][C10_Step]_vars

\* C10: `f r { x = 1 } { y: 2 } q` was normalised
C10_Witness ==
    /\ nphase = "aru_done"
    /\ nin = [f |-> ExprF, args |-> <<ExprR, SuffixX, SuffixY, ExprQ>>]
    /\ nout.f = ExprF
    /\ Len(nout.args) = 2
    /\ nout.args[1].node.e.node.e = ExprR
    /\ nout.args[2] = ExprQ

-----------------------------------------------------------------------------
(* expr_to_pat                                                             *)

\* the pattern shape the claim gives each variant that has an image
PatImage ==
    [k \in {"Literal", "Infix", "RecordUpdate", "Var", "DataConstructor", "App", "Typed",
            "Wildcard", "NamedPat"} |->
        CASE k = "Literal" -> "Literal"
          [] k \in {"Infix", "RecordUpdate"} -> "Infix"
          [] k = "Var" -> "Var"
          [] k \in {"DataConstructor", "App"} -> "DataConstructorApp"
          [] k = "Typed" -> "Typed"
          [] k = "Wildcard" -> "Wildcard"
          [] k = "NamedPat" -> "Named"]

\* the variants the claim lets fail for what they are
PatRefused(expr) ==
    \/ expr.node.kind \in {"Accessor", "Lam", "Case", "If", "Let", "Do", "RecordUpdateSuffix"}
    \/ expr.node.kind = "Var" /\ is_actually_qualified(expr.node.v)
    \/ expr.node.kind = "App" /\ expr.node.f.node.kind # "DataConstructor"

\* the messages of the variants that fail for what they are
PatMessages ==
    {"Illegal record accessor in pattern", "Illegal qualified name in pattern",
     "illegal pattern in data constructor position", "Illegal lambda in pattern",
     "Illegal case in pattern", "Illegal if in pattern", "Illegal let in pattern",
     "Illegal do in pattern", "Illegal record update in pattern"}

\* C11: expr_to_pat gives every variant of ExprKind a defined outcome: a variant
\* the claim lets fail gives a failure with a message, any other variant gives
\* either the one pattern shape of its image, on the span of the expression, or
\* the failure of one of the expressions converted inside it
C11_EveryVariant ==
    nphase = "expr_to_pat_done" =>
        /\ nin.node.kind \in ExprKinds
        /\ nout.tag \in {"Ok", "Err"}
        /\ nout.tag = "Err" => nout.msg \in PatMessages
        /\ PatRefused(nin) => nout.tag = "Err"
        /\ nout.tag = "Ok" =>
             /\ nin.node.kind \in DOMAIN PatImage
             /\ nout.pat.node.kind = PatImage[nin.node.kind]
             /\ nout.pat.span = nin.span
             /\ nin.node.kind = "DataConstructor" => nout.pat.node.args = <<>>


\* the second components of a sequence of pairs
Seconds(pairs) == [j \in 1..Len(pairs) |-> pairs[j][2]]

\* the nodes directly below a node of an expression or of a pattern
Kids(node) ==
    (IF "p" \in DOMAIN node THEN <<node.p>> ELSE <<>>)
    \o (IF "e" \in DOMAIN node THEN <<node.e>> ELSE <<>>)
    \o (IF "f" \in DOMAIN node THEN <<node.f>> ELSE <<>>)
    \o (IF "args" \in DOMAIN node THEN node.args ELSE <<>>)
    \o (IF "xs" \in DOMAIN node THEN Seconds(node.xs) ELSE <<>>)
    \o (IF "update" \in DOMAIN node THEN Seconds(node.update) ELSE <<>>)
    \o (IF "lit" \in DOMAIN node
        THEN (CASE node.lit.kind = "Array" -> node.lit.xs
                [] node.lit.kind = "Object" -> Seconds(node.lit.xs)
                [] OTHER -> <<>>)
        ELSE <<>>)

RECURSIVE CountKind(_, _)
RECURSIVE SumKind(_, _)

\* the nodes of the kinds K in the trees ts
SumKind(ts, K) == IF ts = <<>> THEN 0 ELSE CountKind(Head(ts), K) + SumKind(Tail(ts), K)

\* the nodes of the kinds K in the tree t, at any depth
CountKind(t, K) == (IF t.node.kind \in K THEN 1 ELSE 0) + SumKind(Kids(t.node), K)

PseudoKinds == {"NamedPat", "RecordUpdateSuffix"}

\* C12: a pattern that expr_to_pat returns has no NamedPat and no
\* RecordUpdateSuffix node at any depth: an expression with a
\* RecordUpdateSuffix in it is never converted, and the pattern has one
\* as-pattern for each NamedPat of the expression; and the App that
\* apply_record_updates returns for a head that is no suffix has no
\* RecordUpdateSuffix as its head or as an argument
C12_NoPseudo ==
    /\ (nphase = "expr_to_pat_done" /\ nout.tag = "Ok") =>
          /\ CountKind(nout.pat, PseudoKinds) = 0
          /\ CountKind(nin, {"RecordUpdateSuffix"}) = 0
          /\ CountKind(nout.pat, {"Named"}) = CountKind(nin, {"NamedPat"})
    /\ (nphase = "aru_done" /\ ~IsSuffix(nin.f)) =>
          /\ nout.kind = "App"
          /\ ~IsSuffix(nout.f)
          /\ \A j \in 1..Len(nout.args) : ~IsSuffix(nout.args[j])

\* C12: a constructor application with a NamedPat among its arguments has been
\* converted
C12_Witness ==
    /\ nphase = "expr_to_pat_done"
    /\ nout.tag = "Ok"
    /\ nin.node.kind = "App"
    /\ CountKind(nin, {"NamedPat"}) >= 1


-----------------------------------------------------------------------------
(* constraint_to_instance_head and constraint_to_class_head                *)

RECURSIVE SpineHead(_)
\* the type at the end of the function side of the applications of t
SpineHead(t) == IF t.node.kind = "TypeApp" THEN SpineHead(t.node.f) ELSE t

RECURSIVE SpineArgs(_)
\* the types t applies its head to, as the source text has them
SpineArgs(t) ==
    IF t.node.kind = "TypeApp" THEN Append(SpineArgs(t.node.f), t.node.x) ELSE <<>>

\* the constraint of the source text `Foo a b`
TypeFooAB ==
    Located(TypeSpan,
        TypeApp(Located(TypeSpan,
                    TypeApp(Located(TypeSpan, TypeConstructor(QualifiedName(None, "Foo"))),
                            Located(TypeSpan, TypeVar("a")))),
                Located(TypeSpan, TypeVar("b"))))

\* the constraint of the source text `Foo a`
TypeFooA ==
    Located(TypeSpan,
        TypeApp(Located(TypeSpan, TypeConstructor(QualifiedName(None, "Foo"))),
                Located(TypeSpan, TypeVar("a"))))

\* C13: what constraint_to_instance_head returns: the constructor at the end
\* of the spine with the applied types in source order, nothing if the spine
\* ends in anything else
C13_State ==
    nphase = "instance_head_done" =>
        /\ nout = IF SpineHead(nin).node.kind = "TypeConstructor"
                  THEN Some(<<SpineHead(nin).node.name, SpineArgs(nin)>>)
                  ELSE Nil
        /\ nin.node.kind = "TypeConstructor" => nout = Some(<<nin.node.name, <<>> >>)
        /\ nin = TypeFooAB =>
             nout = Some(<<QualifiedName(None, "Foo"),
                           <<Located(TypeSpan, TypeVar("a")), Located(TypeSpan, TypeVar("b"))>> >>)

\* C13: constraint_to_instance_head returns the constructor at the end of the
\* spine of t with the applied types in source order, or nothing if the spine
\* ends in anything else, and every call returns
C13_InstanceHead == []C13_State /\ ((nphase = "instance_head") ~> (nphase = "instance_head_done"))

\* C13: constraint_to_instance_head has returned (Foo, [a, b]) for `Foo a b`
C13_Witness ==
    /\ nphase = "instance_head_done"
    /\ nin = TypeFooAB
    /\ nout.kind = "Some"
    /\ Len(nout.value[2]) = 2

\* what the claim gives constraint_to_class_head, from what
\* constraint_to_instance_head returns for the same constraint
ClassHeadOf(instance) ==
    IF /\ instance.kind = "Some"
       /\ ~is_actually_qualified(instance.value[1])
       /\ \A j \in 1..Len(instance.value[2]) : instance.value[2][j].node.kind = "Var"
    THEN Some(<<instance.value[1].name,
                [j \in 1..Len(instance.value[2]) |-> <<instance.value[2][j].node.v, None>>]>>)
    ELSE Nil

\* C14: constraint_to_class_head returns something exactly when
\* constraint_to_instance_head returns an unqualified constructor applied to
\* type variables only, and then the symbol of that constructor with those
\* variables in the same order, each with no kind
C14_ClassHead ==
    nphase = "class_head_done" => nout = ClassHeadOf(constraint_to_instance_head(nin))

\* C14: constraint_to_class_head has returned (Foo, [(a, None)]) for `Foo a`
C14_Witness ==
    /\ nphase = "class_head_done"
    /\ nin = TypeFooA
    /\ nout = Some(<<"Foo", << <<"a", None>> >> >>)


-----------------------------------------------------------------------------
(* The renamer: lookup through one scope, and the life of a binder         *)

\* the expression e is an unqualified reference, inside a lambda that does not
\* bind its symbol, to a symbol that a scope below that lambda's holds
Enclosed(e) ==
    /\ depth >= 1
    /\ e.kind = "Var"
    /\ e.v.module = None
    /\ e.v.name \notin top_scope(local_scopes)
    /\ \E k \in 1..(Len(local_scopes) - 1) : e.v.name \in local_scopes[k]

\* C15: a reference inside a lambda to a variable that an enclosing lambda or
\* the parameters of the clause bind, and that the lambda itself does not bind,
\* is not kept as a local: it is rewritten to the absolute name of the module
\* scope's unqualified entry for the symbol if there is one, and ends in the
\* unknown-variable failure otherwise
C15_TopScopeOnly ==
    [][ (pc = "expr" /\ Enclosed(CurrentExpr))
        => LET q == CurrentExpr.v IN
           IF q \in DOMAIN module_scope
           THEN /\ pc' = "return"
                /\ failure' = None
                /\ x' = [x EXCEPT !.expr.e =
                           SetBody(@, depth, Var(to_qualified_name(module_scope[q])))]
                /\ x' # x
           ELSE /\ pc' = "panic"
                /\ failure' = "unknown variable"
                /\ x' = x ]_vars

\* C15: in `f x = \a -> x` with an unqualified x imported, the reference to the
\* parameter x has been rewritten to the absolute name of the import
C15_Witness ==
    /\ pc = "return"
    /\ orig = CaseBranch(<<PatVar("x")>>,
                         Unconditional(Lam(<<PatVar("a")>>, Var(QualifiedName(None, "x")))))
    /\ Enclosed(Body(orig.expr.e, depth))
    /\ CurrentExpr = Var(to_qualified_name(module_scope[QualifiedName(None, "x")]))
    /\ CurrentExpr.v.module \in ModuleIds


\* the symbols the variable patterns of pats bind
BoundBy(pats) == { pats[j].name : j \in { k \in 1..Len(pats) : pats[k].kind = "Var" } }

\* the patterns of the construct that pushed the scope k: the clause for the
\* scope above the base one, the lambdas of its body for the ones above that
OwnPats(k) == IF k = 2 THEN x.pats ELSE Body(x.expr.e, k - 3).pats

\* C16, as a state predicate: the scope rename_module created is empty, every
\* other scope holds only symbols that the patterns of the construct that
\* pushed it bind, and where no equation is being renamed the stack is the
\* empty base scope alone
C16_State ==
    /\ local_scopes # <<>> => local_scopes[1] = {}
    /\ \A k \in 2..Len(local_scopes) : local_scopes[k] \subseteq BoundBy(OwnPats(k))
    /\ (pc \in {"values", "decl", "equations", "branch", "done"}) => local_scopes = <<{}>>

\* C16, one step: a pop leaves exactly the scopes below the popped one, no step
\* changes a scope below the top one, a parameter of a clause is a duplicate
\* only of an earlier parameter of the same clause, and a reference in the body
\* of a clause to a symbol that no parameter of this clause binds is resolved
\* by the module scope
C16_Step ==
    /\ (pc = "return" /\ pc' # "panic") => local_scopes' = Front(local_scopes)
    /\ \A k \in 1..(Len(local_scopes) - 1) :
           k <= Len(local_scopes') => local_scopes'[k] = local_scopes[k]
    /\ (pc = "pats" /\ failure' = "duplicate variable in pattern") =>
           \E j \in 1..(i - 1) : x.pats[j] = x.pats[i]
    /\ (AtVar /\ depth = 0 /\ CurrentExpr.v.name \notin BoundBy(x.pats)) =>
           IF CurrentExpr.v \in DOMAIN module_scope
           THEN pc' = "return" /\ x'.expr.e = Var(to_qualified_name(module_scope[CurrentExpr.v]))
           ELSE pc' = "panic" /\ failure' = "unknown variable"

\* C16: binders never leak out of the construct that introduced them: the base
\* scope stays empty, every scope holds only what its own construct bound, a
\* pop leaves the scopes below as they were, and so an equation is renamed as
\* if no equation had been renamed before it
C16_NoLeak == [](C16_State) /\ [][C16_Step]_vars

\* C16: a clause that bound a parameter has been popped and the stack is the
\* empty base scope again, ready for the next equation
C16_Witness ==
    /\ pc = "equations"
    /\ x = Nil
    /\ i >= 2
    /\ local_scopes = <<{}>>
    /\ unpopped = 0

====
